---- MODULE Spec2Model ----
(***************************************************************************)
(* Tafawoq: subscription lifecycle (Stripe webhook consumer, subscription  *)
(* service, useSubscription hook) and the free-tier exam quota.            *)
(*                                                                         *)
(* Nullable columns and optional fields are options: None is null,         *)
(* Some(x) a value.  ISO timestamps are integers in milliseconds.          *)
(***************************************************************************)
EXTENDS Integers, Sequences, FiniteSets, TLC

VARIABLES
    user_subscriptions, \* table user_subscriptions: user_id -> row or NoRow
    user_analytics,     \* table user_analytics: the user_ids that have a row
    now,                \* wall clock, in seconds
    webhook,            \* the last exchange of the webhook endpoint
    delivered,          \* Stripe's side: the event it delivered last
    call,               \* the last call of the service that returned
    hook,               \* useSubscription: its React state, and mounted or not
    inflight,           \* useSubscription: the user of each action in flight
    upgrade,            \* upgradeToPremium: where the call in flight stands
    exam_sessions,      \* table exam_sessions: a set of rows
    eligibility,        \* the last answer of check_exam_eligibility
    exam_results,       \* table exam_results: a set of rows
    submits,            \* submitExam: where each caller's call stands
    practice_sessions,  \* table practice_sessions: a set of rows
    generation          \* generate: where the call in flight stands

vars ==
    <<user_subscriptions, user_analytics, now, webhook, delivered, call, hook,
      inflight, upgrade, exam_sessions, eligibility, exam_results, submits,
      practice_sessions, generation>>

quota == <<exam_sessions, eligibility>>

generating == <<practice_sessions, generation>>

content == <<exam_results, submits, generating>>

client == <<call, hook, inflight, upgrade, quota, content>>

store == <<user_subscriptions, user_analytics, now, webhook, delivered>>

----------------------------------------------------------------------------
(* Bounds *)

MaxTime == 1

\* The quota is followed for this many days, with this many exam sessions.
MaxDays == 7
MaxSessions == 2

----------------------------------------------------------------------------
(* Values *)

None == <<>>
Some(x) == <<x>>
Opt(S) == {None} \cup {Some(x) : x \in S}

Users == {"u1", "u2"}
CustomerIds == {"cus_1", "cus_2"}
SubscriptionIds == {"sub_1", "sub_2"}

SubscriptionTier == {"free", "premium"}
SubscriptionStatus == {"active", "trialing", "past_due", "canceled", "incomplete"}

NoRow == [user_id |-> "none"]

\* A user_subscriptions row with the column defaults of the schema.
DefaultRow(u, c) ==
    [user_id |-> u,
     stripe_customer_id |-> c,
     stripe_subscription_id |-> None,
     tier |-> "free",
     status |-> "active",
     trial_end_at |-> None,
     current_period_start |-> None,
     current_period_end |-> None,
     canceled_at |-> None,
     updated_at |-> 0]

\* new Date(seconds * 1000).toISOString()
FromUnix(s) == s * 1000

\* new Date().toISOString()
NowISO(t) == t * 1000

----------------------------------------------------------------------------
(* Stripe events *)

STRIPE_WEBHOOK_SECRET == "whsec_live"

EventTypes ==
    {"customer.subscription.created", "customer.subscription.updated",
     "customer.subscription.deleted", "invoice.payment_failed",
     "charge.succeeded"}

\* Stripe.Subscription, the fields the handlers read.
SubscriptionObject(id, c, st, cape, cat, te) ==
    [id |-> Some(id), customer |-> c, status |-> st,
     cancel_at_period_end |-> cape, canceled_at |-> cat, trial_end |-> te,
     current_period_start |-> 1, current_period_end |-> 2]

\* Stripe.Invoice, the field handlePaymentFailed reads, in the same shape.
InvoiceObject(sub) ==
    [id |-> sub, customer |-> "cus_1", status |-> "active",
     cancel_at_period_end |-> FALSE, canceled_at |-> None, trial_end |-> None,
     current_period_start |-> 1, current_period_end |-> 2]

DataObjects(type) ==
    CASE type = "customer.subscription.created" ->
           {SubscriptionObject(id, "cus_1", st, FALSE, None, te) :
              id \in SubscriptionIds,
              st \in {"incomplete", "trialing", "active"}, te \in Opt({2})}
           \cup {SubscriptionObject("sub_1", "cus_2", "active", FALSE, None, None)}
      [] type = "customer.subscription.updated" ->
           {SubscriptionObject(id, "cus_1", st, cape, cat, None) :
              id \in SubscriptionIds, st \in SubscriptionStatus,
              cape \in BOOLEAN, cat \in Opt({1})}
      [] type = "customer.subscription.deleted" ->
           {SubscriptionObject(id, "cus_1", "canceled", FALSE, Some(1), None) :
              id \in SubscriptionIds}
      [] type = "invoice.payment_failed" ->
           {InvoiceObject(sub) : sub \in Opt(SubscriptionIds)}
      [] OTHER -> {InvoiceObject(None)}

\* Stripe.Event: its type, its own timestamp and its data.object.
Event(type, created, object) ==
    [type |-> type, created |-> created, object |-> object]

\* The events Stripe may send with own timestamp in `times`.
Events(times) ==
    UNION {{Event(type, c, o) : c \in times, o \in DataObjects(type)} :
             type \in EventTypes}

NoEvent == [type |-> "none"]

----------------------------------------------------------------------------
(* The tables, as the supabase-js query builder reads and writes them *)

\* .eq(column, value): the users whose row has that value in the column.
RowsWhere(table, column, value) ==
    {u \in Users : table[u] # NoRow /\ table[u][column] = value}

\* .update(patch): the row with the patch's columns overwritten.
Patched(row, patch) ==
    [k \in DOMAIN row |-> IF k \in DOMAIN patch THEN patch[k] ELSE row[k]]

\* .update(patch).eq(column, value): zero matching rows is not an error.
UpdateWhere(table, column, value, patch) ==
    [u \in Users |->
        IF u \in RowsWhere(table, column, value)
        THEN Patched(table[u], patch) ELSE table[u]]

\* What a handler leaves behind: the tables, whether it threw, how many rows
\* its reference matched, and the console levels it wrote.
Outcome(table, analytics, threw, matched, log) ==
    [table |-> table, analytics |-> analytics, threw |-> threw,
     matched |-> matched, log |-> log]

----------------------------------------------------------------------------
(* Webhook consumer *)

\* stripe.webhooks.constructEvent: the header is the key that signed and
\* whether the signed payload is this body; null (None) unless both fit.
\* A verification that looks at the key alone and accepts a body that was
\* altered after signing; C3 must tell it from the code's.
verifyKeyOnly(event, signature) ==
    IF signature.key = STRIPE_WEBHOOK_SECRET THEN Some(event) ELSE None

verifyWebhookSignature(event, signature) ==
    IF signature.key = STRIPE_WEBHOOK_SECRET /\ signature.intact
    THEN Some(event) ELSE None

\* A handler that throws when the analytics row cannot be ensured; C26 must
\* tell it from the code's.
handleSubscriptionCreatedStrict(table, analytics, subscription, t, dbErr) ==
    LET customerId == subscription.customer
        found == RowsWhere(table, "stripe_customer_id", Some(customerId))
        updated ==
            UpdateWhere(table, "stripe_customer_id", Some(customerId),
                [stripe_subscription_id |-> subscription.id,
                 tier |-> "premium",
                 status |-> subscription.status,
                 trial_end_at |->
                     IF subscription.trial_end # None
                     THEN Some(FromUnix(subscription.trial_end[1])) ELSE None,
                 current_period_start |->
                     Some(FromUnix(subscription.current_period_start)),
                 current_period_end |->
                     Some(FromUnix(subscription.current_period_end)),
                 updated_at |-> NowISO(t)])
    IN  IF dbErr = "select" \/ Cardinality(found) # 1
        THEN Outcome(table, analytics, TRUE, Cardinality(found), {"error"})
        ELSE IF dbErr = "update"
        THEN Outcome(table, analytics, TRUE, 1, {"error"})
        ELSE IF dbErr = "upsert"
        THEN Outcome(updated, analytics, TRUE, 1, {"error"})
        ELSE Outcome(updated, analytics \cup found, FALSE, 1, {"log"})

handleSubscriptionCreated(table, analytics, subscription, t, dbErr) ==
    LET customerId == subscription.customer
        found == RowsWhere(table, "stripe_customer_id", Some(customerId))
        fetchError == dbErr = "select" \/ Cardinality(found) # 1
        updateError == dbErr = "update"
        analyticsError == dbErr = "upsert"
        updated ==
            UpdateWhere(table, "stripe_customer_id", Some(customerId),
                [stripe_subscription_id |-> subscription.id,
                 tier |-> "premium",
                 status |-> subscription.status,
                 trial_end_at |->
                     IF subscription.trial_end # None
                     THEN Some(FromUnix(subscription.trial_end[1])) ELSE None,
                 current_period_start |->
                     Some(FromUnix(subscription.current_period_start)),
                 current_period_end |->
                     Some(FromUnix(subscription.current_period_end)),
                 updated_at |-> NowISO(t)])
    IN  IF fetchError
        THEN Outcome(table, analytics, TRUE, Cardinality(found), {"error"})
        ELSE IF updateError
        THEN Outcome(table, analytics, TRUE, 1, {"error"})
        ELSE IF analyticsError
        THEN Outcome(updated, analytics, FALSE, 1, {"error", "log"})
        ELSE Outcome(updated, analytics \cup found, FALSE, 1, {"log"})

\* A downgrade on any cancellation, scheduled or immediate; C19 must tell
\* it from the code's.
shouldDowngradeAnyCancel(subscription) ==
    subscription.status = "canceled" \/ subscription.canceled_at # None

shouldDowngrade(subscription) ==
    subscription.status = "canceled" /\ ~subscription.cancel_at_period_end

handleSubscriptionUpdated(table, analytics, subscription, t, dbErr) ==
    LET found == RowsWhere(table, "stripe_subscription_id", subscription.id)
        base == [status |-> subscription.status,
                 canceled_at |->
                     IF subscription.canceled_at # None
                     THEN Some(FromUnix(subscription.canceled_at[1])) ELSE None,
                 updated_at |-> NowISO(t)]
        updateData ==
            IF shouldDowngrade(subscription)
            THEN [k \in DOMAIN base \cup {"tier"} |->
                     IF k = "tier" THEN "free" ELSE base[k]]
            ELSE base
    IN  IF dbErr = "update"
        THEN Outcome(table, analytics, TRUE, Cardinality(found), {"error"})
        ELSE Outcome(
                UpdateWhere(table, "stripe_subscription_id", subscription.id,
                            updateData),
                analytics, FALSE, Cardinality(found), {"log"})

handleSubscriptionDeleted(table, analytics, subscription, t, dbErr) ==
    LET found == RowsWhere(table, "stripe_subscription_id", subscription.id)
    IN  IF dbErr = "update"
        THEN Outcome(table, analytics, TRUE, Cardinality(found), {"error"})
        ELSE Outcome(
                UpdateWhere(table, "stripe_subscription_id", subscription.id,
                    [tier |-> "free",
                     status |-> "canceled",
                     canceled_at |-> Some(NowISO(t)),
                     updated_at |-> NowISO(t)]),
                analytics, FALSE, Cardinality(found), {"log"})

\* A payment failure that also takes the paid tier away; C20 must tell it
\* from the code's.
handlePaymentFailedDowngrade(table, analytics, invoice, t, dbErr) ==
    LET subscriptionId == invoice.id
        found == RowsWhere(table, "stripe_subscription_id", subscriptionId)
    IN  IF subscriptionId = None
        THEN Outcome(table, analytics, FALSE, 0, {"warn"})
        ELSE IF dbErr = "update"
        THEN Outcome(table, analytics, TRUE, Cardinality(found), {"error"})
        ELSE Outcome(
                UpdateWhere(table, "stripe_subscription_id", subscriptionId,
                    [tier |-> "free",
                     status |-> "past_due",
                     updated_at |-> NowISO(t)]),
                analytics, FALSE, Cardinality(found), {"log"})

handlePaymentFailed(table, analytics, invoice, t, dbErr) ==
    LET subscriptionId == invoice.id
        found == RowsWhere(table, "stripe_subscription_id", subscriptionId)
    IN  IF subscriptionId = None
        THEN Outcome(table, analytics, FALSE, 0, {"warn"})
        ELSE IF dbErr = "update"
        THEN Outcome(table, analytics, TRUE, Cardinality(found), {"error"})
        ELSE Outcome(
                UpdateWhere(table, "stripe_subscription_id", subscriptionId,
                    [status |-> "past_due",
                     updated_at |-> NowISO(t)]),
                analytics, FALSE, Cardinality(found), {"log"})

HandledTypes ==
    {"customer.subscription.created", "customer.subscription.updated",
     "customer.subscription.deleted", "invoice.payment_failed"}

\* The switch on event.type inside the inner try of serve.
dispatch(table, analytics, event, t, dbErr) ==
    CASE event.type = "customer.subscription.created" ->
           handleSubscriptionCreated(table, analytics, event.object, t, dbErr)
      [] event.type = "customer.subscription.updated" ->
           handleSubscriptionUpdated(table, analytics, event.object, t, dbErr)
      [] event.type = "customer.subscription.deleted" ->
           handleSubscriptionDeleted(table, analytics, event.object, t, dbErr)
      [] event.type = "invoice.payment_failed" ->
           handlePaymentFailed(table, analytics, event.object, t, dbErr)
      [] OTHER -> Outcome(table, analytics, FALSE, 0, {"log"})

Signatures ==
    Opt([key : {STRIPE_WEBHOOK_SECRET, "whsec_other"}, intact : BOOLEAN])

Request(method, signature, event) ==
    [method |-> method, signature |-> signature, event |-> event]

Signed(event) ==
    Request("POST", Some([key |-> STRIPE_WEBHOOK_SECRET, intact |-> TRUE]),
            event)

\* What the stripe-signature header of a request is, whatever serve makes
\* of it: absent, a signature of this body under the shared secret, or not.
SignatureOf(req) ==
    IF req.signature = None THEN "missing"
    ELSE IF req.signature[1] = [key |-> STRIPE_WEBHOOK_SECRET, intact |-> TRUE]
    THEN "valid" ELSE "invalid"

\* Every event under a good signature, and two events that would write
\* (a created and a deleted one) under every method and signature header.
Requests(events) ==
    {Signed(e) : e \in events}
    \cup {Request(m, sg, e) :
            m \in {"POST", "GET"}, sg \in Signatures,
            e \in {x \in events :
                     /\ x.type \in {"customer.subscription.created",
                                     "customer.subscription.deleted"}
                     /\ x.object.id = Some("sub_1")
                     /\ x.object.customer = "cus_1"
                     /\ x.object.status \in {"active", "canceled"}
                     /\ x.object.trial_end = None}}

\* The database calls a handler for this event type makes.
DbCalls(type) ==
    CASE type = "customer.subscription.created" -> {"select", "update", "upsert"}
      [] type \in {"customer.subscription.updated",
                   "customer.subscription.deleted",
                   "invoice.payment_failed"} -> {"update"}
      [] OTHER -> {}

\* What serve leaves in `webhook`: the request's method and signature
\* header, the response status, what the handler did, and which of its
\* database calls (if any) came back with an error.
Exchange(req, status, type, handled, threw, matched, log, fault) ==
    [method |-> req.method, signature |-> SignatureOf(req),
     status |-> status, type |-> type, handled |-> handled, threw |-> threw,
     matched |-> matched, log |-> log, fault |-> fault]

NoExchange ==
    [method |-> "none", signature |-> "none", status |-> 0,
     type |-> "none", handled |-> FALSE, threw |-> FALSE, matched |-> 0,
     log |-> {}, fault |-> "none"]

\* An early return of serve: a response and nothing else.
respond(req, status, log) ==
    /\ webhook' = Exchange(req, status, "none", FALSE, FALSE, 0, log, "none")
    /\ UNCHANGED <<user_subscriptions, user_analytics>>

\* An inner try that lets the handler's failure out to the outer catch,
\* which answers 500; C4 must tell it from the code's.
processUncaught(req, event, dbErr) ==
    \E out \in {dispatch(user_subscriptions, user_analytics, event, now, dbErr)} :
        /\ user_subscriptions' = IF out.threw THEN user_subscriptions ELSE out.table
        /\ user_analytics' = IF out.threw THEN user_analytics ELSE out.analytics
        /\ webhook' = Exchange(req, IF out.threw THEN 500 ELSE 200, event.type,
                               TRUE, out.threw, out.matched, out.log, dbErr)

\* The inner try of serve: the handler of the event's type runs, what it
\* throws is caught and logged, and the answer is 200 either way.
process(req, event, dbErr) ==
    \E out \in {dispatch(user_subscriptions, user_analytics, event, now, dbErr)} :
        /\ user_subscriptions' = out.table
        /\ user_analytics' = out.analytics
        /\ webhook' = Exchange(req, 200, event.type, TRUE, out.threw,
                               out.matched, out.log, dbErr)

\* serve(async (req) => ...): one request, from the method check to the
\* response.  req.text() returns the body that was sent, so the outer catch
\* (500) has nothing to catch.
serve(req, dbErr) ==
    /\ UNCHANGED now
    /\ IF req.method # "POST"
       THEN respond(req, 405, {})
       ELSE IF req.signature = None
       THEN respond(req, 400, {})
       ELSE \E verified \in {verifyWebhookSignature(req.event, req.signature[1])} :
              IF verified = None
              THEN respond(req, 400, {"error"})
              ELSE process(req, verified[1], dbErr)

\* A request arrives at the endpoint.
Webhook ==
    /\ \E req \in Requests(Events({now})) :
         \E dbErr \in {"none"} \cup DbCalls(req.event.type) : serve(req, dbErr)
    /\ UNCHANGED <<delivered, client>>

Tick ==
    /\ now < MaxTime
    /\ now' = now + 1
    /\ UNCHANGED <<user_subscriptions, user_analytics, webhook, delivered, client>>

----------------------------------------------------------------------------
(* Stripe delivering, and delivering again, the events of one subscription *)

RetryObjects(type) ==
    CASE type = "customer.subscription.created" ->
           {SubscriptionObject("sub_1", "cus_1", st, FALSE, None, None) :
              st \in {"incomplete", "trialing", "active"}}
      [] type = "customer.subscription.updated" ->
           {SubscriptionObject("sub_1", "cus_1", st, cape, cat, None) :
              st \in {"active", "incomplete", "past_due", "canceled"},
              cape \in BOOLEAN, cat \in Opt({1})}
      [] type = "customer.subscription.deleted" ->
           {SubscriptionObject("sub_1", "cus_1", "canceled", FALSE, Some(1), None)}
      [] type = "invoice.payment_failed" -> {InvoiceObject(Some("sub_1"))}
      [] OTHER -> {}

RetryEvents(times) ==
    UNION {{Event(type, c, o) : c \in times, o \in RetryObjects(type)} :
             type \in HandledTypes}

\* Stripe delivers an event it created at or before now, possibly one it
\* delivered before, possibly older than the one before.
Deliver ==
    \E e \in RetryEvents(0..now) :
        /\ serve(Signed(e), "none")
        /\ delivered' = e
        /\ UNCHANGED client

----------------------------------------------------------------------------
(* Subscription service (client) *)

\* The events that reach the endpoint while the client is at work: the
\* subscription of cus_1 is created, canceled at once, or deleted.
SettlingObjects(type) ==
    CASE type = "customer.subscription.created" ->
           {SubscriptionObject("sub_1", "cus_1", "active", FALSE, None, None)}
      [] type = "customer.subscription.updated" ->
           {SubscriptionObject("sub_1", "cus_1", "canceled", cape, Some(1), None) :
              cape \in BOOLEAN}
      [] type = "customer.subscription.deleted" ->
           {SubscriptionObject("sub_1", "cus_1", "canceled", FALSE, Some(1), None)}
      [] OTHER -> {}

SettlingEvents(times) ==
    UNION {{Event(type, c, o) : c \in times, o \in SettlingObjects(type)} :
             type \in HandledTypes}

Settle ==
    /\ \E e \in SettlingEvents({now}) : serve(Signed(e), "none")
    /\ UNCHANGED <<delivered, client>>

\* A result of a service method: a value it returned or a ServiceError code
\* it threw.
Returned(v) == [threw |-> FALSE, value |-> v, code |-> "none"]
Threw(code) == [threw |-> TRUE, value |-> None, code |-> code]

\* getSubscription(userId): the row as a Subscription, null (None) when the
\* user has no row (PGRST116), SUBSCRIPTION_FETCH_FAILED on any other error.
getSubscription(table, userId, fetchError) ==
    IF fetchError THEN Threw("SUBSCRIPTION_FETCH_FAILED")
    ELSE IF table[userId] = NoRow THEN Returned(None)
    ELSE Returned(Some(table[userId]))

\* supabase.functions.invoke(fn, {body}): the call as it leaves the client.
Invocation(fn, userId, subscription) ==
    [fn |-> fn, user_id |-> userId,
     subscription_id |-> subscription.stripe_subscription_id[1]]

\* What a call leaves in `call`: the method, what its first read of the store
\* showed, the edge function call it sent (if any) and its result.
Call(op, userId, seen, remote, result) ==
    [op |-> op, user_id |-> userId, seen |-> seen, remote |-> remote,
     result |-> result]

NoCall == Call("none", "none", Threw("none"), None, Threw("none"))

\* cancelSubscription(userId)
cancelSubscription(table, userId, fetchError, invokeError) ==
    LET seen == getSubscription(table, userId, fetchError)
        subscription == seen.value
    IN  IF seen.threw
        THEN Call("cancel", userId, seen, None, seen)
        ELSE IF subscription = None
        THEN Call("cancel", userId, seen, None, Threw("NO_SUBSCRIPTION"))
        ELSE IF subscription[1].stripe_subscription_id = None
        THEN Call("cancel", userId, seen, None, Threw("INVALID_SUBSCRIPTION"))
        ELSE Call("cancel", userId, seen,
                  Some(Invocation("cancel-subscription", userId, subscription[1])),
                  IF invokeError THEN Threw("CANCEL_FAILED") ELSE Returned(None))

\* reactivateSubscription(userId): after the remote call it reads the store
\* again and returns that row.
reactivateSubscription(table, userId, fetchError, invokeError, refetchError) ==
    LET seen == getSubscription(table, userId, fetchError)
        subscription == seen.value
        updatedSubscription == getSubscription(table, userId, refetchError)
        sent == Some(Invocation("reactivate-subscription", userId,
                                subscription[1]))
    IN  IF seen.threw
        THEN Call("reactivate", userId, seen, None, seen)
        ELSE IF subscription = None
        THEN Call("reactivate", userId, seen, None, Threw("NO_SUBSCRIPTION"))
        ELSE IF subscription[1].stripe_subscription_id = None
        THEN Call("reactivate", userId, seen, None,
                  Threw("INVALID_SUBSCRIPTION"))
        ELSE IF invokeError
        THEN Call("reactivate", userId, seen, sent, Threw("REACTIVATE_FAILED"))
        ELSE IF updatedSubscription.threw
        THEN Call("reactivate", userId, seen, sent, updatedSubscription)
        ELSE IF updatedSubscription.value = None
        THEN Call("reactivate", userId, seen, sent,
                  Threw("SUBSCRIPTION_NOT_FOUND"))
        ELSE Call("reactivate", userId, seen, sent,
                  Returned(updatedSubscription.value))

CancelSubscription ==
    /\ \E userId \in Users, fetchError \in BOOLEAN, invokeError \in BOOLEAN :
         call' = cancelSubscription(user_subscriptions, userId, fetchError,
                                    invokeError)
    /\ UNCHANGED <<store, hook, inflight, upgrade, quota, content>>

ReactivateSubscription ==
    /\ \E userId \in Users, fetchError \in BOOLEAN, invokeError \in BOOLEAN,
          refetchError \in BOOLEAN :
         call' = reactivateSubscription(user_subscriptions, userId, fetchError,
                                        invokeError, refetchError)
    /\ UNCHANGED <<store, hook, inflight, upgrade, quota, content>>

----------------------------------------------------------------------------
(* Checkout: initializePremiumCheckout, presentPaymentSheet and the poll *)

\* What create-checkout-session answers: invoke throws, or returns an error,
\* or data holding some of the three fields; or it stays silent.
CheckoutResponses ==
    {[kind |-> "throw"], [kind |-> "error"], [kind |-> "null"],
     [kind |-> "silent"]}
    \cup [kind : {"data"}, clientSecret : Opt({"pi_secret"}),
          ephemeralKey : Opt({"ek_1"}), customerId : Opt({"cus_1"})]

\* The call initializePremiumCheckout makes: the function and a body, with
\* no timeout and no abort signal.
CheckoutInvocation ==
    [fn |-> "create-checkout-session", timeout |-> None]

\* supabase.functions.invoke(fn, options) against this answer: the promise
\* settles with the answer; under silence it settles (with an error) only
\* when the options carry a timeout, and stays pending otherwise.
invoke(options, response) ==
    IF response.kind # "silent" THEN response
    ELSE IF options.timeout = None THEN [kind |-> "pending"]
    ELSE [kind |-> "error"]

initializePremiumCheckout(response) ==
    CASE response.kind = "throw" -> Threw("CHECKOUT_ERROR")
      [] response.kind = "error" -> Threw("CHECKOUT_INIT_FAILED")
      [] response.kind = "null" -> Threw("CHECKOUT_INVALID_RESPONSE")
      [] OTHER ->
           IF \/ response.clientSecret = None
              \/ response.ephemeralKey = None
              \/ response.customerId = None
           THEN Threw("CHECKOUT_INVALID_RESPONSE")
           ELSE Returned(Some([clientSecret |-> response.clientSecret[1],
                               ephemeralKey |-> response.ephemeralKey[1],
                               customerId |-> response.customerId[1]]))

\* The codes errorMessages has an entry for.
KnownPaymentCodes ==
    {"Canceled", "Failed", "card_declined", "insufficient_funds",
     "expired_card", "incorrect_cvc", "processing_error",
     "invalid_expiry_year", "invalid_expiry_month", "invalid_number",
     "network_error"}

\* getArabicPaymentError(code): the message of the code, by the English
\* gloss the source gives it; the generic message for any other code.
getArabicPaymentError(code) ==
    CASE code = "Canceled" -> "Payment was canceled"
      [] code = "Failed" -> "Payment failed"
      [] code = "card_declined" -> "Card was declined"
      [] code = "insufficient_funds" -> "Insufficient funds"
      [] code = "expired_card" -> "Card has expired"
      [] code = "incorrect_cvc" -> "Security code is incorrect"
      [] code = "processing_error" -> "Payment processing error"
      [] code = "invalid_expiry_year" -> "Expiry year is invalid"
      [] code = "invalid_expiry_month" -> "Expiry month is invalid"
      [] code = "invalid_number" -> "Card number is invalid"
      [] code = "network_error" -> "Connection error"
      [] OTHER -> "An error occurred during payment processing"

\* The codes the Stripe SDK is drawn to report here; the last is one
\* errorMessages does not know.
StripeErrorCodes == {"Canceled", "Failed", "card_declined", "rate_limit"}

\* What the Stripe payment sheet does: a call throws, initPaymentSheet
\* reports an error, presentPaymentSheet reports one, or the payment is made.
SheetOutcomes ==
    {[kind |-> "throw", code |-> "none"], [kind |-> "paid", code |-> "none"]}
    \cup [kind : {"initError", "presentError"}, code : StripeErrorCodes]

PaymentResult(success, error) == [success |-> success, error |-> error]
PaymentError(code, message) == [code |-> code, message |-> message]

presentPaymentSheet(sheet) ==
    CASE sheet.kind = "throw" ->
           PaymentResult(FALSE,
               Some(PaymentError("PAYMENT_ERROR",
                                 "An error occurred during payment processing")))
      [] sheet.kind = "initError" ->
           PaymentResult(FALSE,
               Some(PaymentError(sheet.code, getArabicPaymentError(sheet.code))))
      [] sheet.kind = "presentError" ->
           IF sheet.code = "Canceled"
           THEN PaymentResult(FALSE,
                    Some(PaymentError("PAYMENT_CANCELED", "Payment was canceled")))
           ELSE PaymentResult(FALSE,
                    Some(PaymentError(sheet.code,
                                      getArabicPaymentError(sheet.code))))
      [] OTHER -> PaymentResult(TRUE, None)

maxAttempts == 3

\* const delays = [1000, 2000, 3000]
delays == <<1000, 2000, 3000>>

\* refreshSubscriptionStatus(userId) in flight: the loop index, the reads of
\* the store made so far, the delays waited, the last value read, and the
\* result once it has one.
Poll(attempt, reads, waited, last, done, result) ==
    [attempt |-> attempt, reads |-> reads, waited |-> waited, last |-> last,
     done |-> done, result |-> result]

NoPoll == Poll(0, 0, <<>>, None, FALSE, Threw("none"))

\* A loop that returns the first record it reads, premium or not; C7 must
\* tell it from the code's.
pollFirstRecord(p, table, userId, fetchError) ==
    LET read == getSubscription(table, userId, fetchError)
    IN  IF read.threw
        THEN Poll(p.attempt, p.reads + 1, p.waited, p.last, TRUE, read)
        ELSE IF read.value # None
        THEN Poll(p.attempt, p.reads + 1, p.waited, read.value, TRUE, read)
        ELSE Poll(p.attempt + 1, p.reads + 1, p.waited, read.value, FALSE,
                  p.result)

\* One turn of the loop of refreshSubscriptionStatus: the wait (after the
\* first attempt), the read, and the return when the tier reads premium.
pollAttempt(p, table, userId, fetchError) ==
    LET waited == IF p.attempt > 0
                  THEN Append(p.waited, delays[p.attempt]) ELSE p.waited
        read == getSubscription(table, userId, fetchError)
    IN  IF read.threw
        THEN Poll(p.attempt, p.reads + 1, waited, p.last, TRUE, read)
        ELSE IF read.value # None /\ read.value[1].tier = "premium"
        THEN Poll(p.attempt, p.reads + 1, waited, read.value, TRUE, read)
        ELSE Poll(p.attempt + 1, p.reads + 1, waited, read.value, FALSE,
                  p.result)

\* After the loop: the final read, returned unless the user has no row.
pollFinal(p, table, userId, fetchError) ==
    LET read == getSubscription(table, userId, fetchError)
    IN  IF read.threw
        THEN Poll(p.attempt, p.reads + 1, p.waited, p.last, TRUE, read)
        ELSE IF read.value = None
        THEN Poll(p.attempt, p.reads + 1, p.waited, read.value, TRUE,
                  Threw("SUBSCRIPTION_NOT_FOUND"))
        ELSE Poll(p.attempt, p.reads + 1, p.waited, read.value, TRUE, read)

\* The next read of refreshSubscriptionStatus, in the loop or after it.
refreshSubscriptionStatus(p, table, userId, fetchError) ==
    IF p.attempt < maxAttempts
    THEN pollAttempt(p, table, userId, fetchError)
    ELSE pollFinal(p, table, userId, fetchError)

----------------------------------------------------------------------------
(* useSubscription *)

\* A React state setter: it changes the state of a mounted component and
\* is dropped after the unmount.
setState(h, patch) == IF h.mounted THEN Patched(h, patch) ELSE h

Upgrade(pc, userId, poll, result) ==
    [pc |-> pc, user_id |-> userId, poll |-> poll, result |-> result]

\* upgradeToPremium: catch (setError, rethrow) and finally
\* (setIsLoading(false)).
upgradeFailed(code, poll) ==
    /\ hook' = setState(hook, [error |-> Some(code), isLoading |-> FALSE])
    /\ upgrade' = Upgrade("idle", upgrade.user_id, poll, Threw(code))

\* upgradeToPremium: setIsLoading(true); setError(null)
UpgradeStart ==
    /\ hook.mounted
    /\ upgrade.pc = "idle"
    /\ \E uid \in Users :
         upgrade' = Upgrade("checkout", uid, NoPoll, Threw("none"))
    /\ hook' = setState(hook, [isLoading |-> TRUE, error |-> None])
    /\ UNCHANGED <<store, call, inflight, quota, content>>

\* Step 1: initializePremiumCheckout; while the promise of invoke is
\* pending, upgradeToPremium waits in its await.
UpgradeCheckout ==
    /\ upgrade.pc = "checkout"
    /\ \E response \in CheckoutResponses :
         \E answer \in {invoke(CheckoutInvocation, response)} :
            IF answer.kind = "pending"
            THEN /\ upgrade' = [upgrade EXCEPT !.pc = "waiting"]
                 /\ UNCHANGED hook
            ELSE \E checkout \in {initializePremiumCheckout(answer)} :
                    IF checkout.threw
                    THEN upgradeFailed(checkout.code, upgrade.poll)
                    ELSE /\ upgrade' = [upgrade EXCEPT !.pc = "present"]
                         /\ UNCHANGED hook
    /\ UNCHANGED <<store, call, inflight, quota, content>>

\* Step 2: presentPaymentSheet, and the throw on a result without success
UpgradePresent ==
    /\ upgrade.pc = "present"
    /\ \E sheet \in SheetOutcomes :
         \E result \in {presentPaymentSheet(sheet)} :
            IF ~result.success
            THEN upgradeFailed(IF result.error # None
                               THEN result.error[1].code ELSE "PAYMENT_FAILED",
                               upgrade.poll)
            ELSE /\ upgrade' = [upgrade EXCEPT !.pc = "poll"]
                 /\ UNCHANGED hook
    /\ UNCHANGED <<store, call, inflight, quota, content>>

\* Step 3: one read of refreshSubscriptionStatus; when it has its result,
\* setSubscription or the catch, and the finally.
UpgradePoll ==
    /\ upgrade.pc = "poll"
    /\ \E fetchError \in BOOLEAN :
         \E p \in {refreshSubscriptionStatus(upgrade.poll, user_subscriptions,
                                             upgrade.user_id, fetchError)} :
            IF ~p.done
            THEN /\ upgrade' = [upgrade EXCEPT !.poll = p]
                 /\ UNCHANGED hook
            ELSE IF p.result.threw
            THEN upgradeFailed(p.result.code, p)
            ELSE /\ hook' = setState(hook, [subscription |-> p.result.value,
                                            isLoading |-> FALSE])
                 /\ upgrade' = Upgrade("idle", upgrade.user_id, p, p.result)
    /\ UNCHANGED <<store, call, inflight, quota, content>>

\* handleUpgrade of SubscriptionScreen: the alert it shows once
\* upgradeToPremium has settled, by the English gloss of its text; none
\* when the call threw (the catch only logs).
handleUpgrade(result) ==
    IF result.threw THEN None
    ELSE Some("Upgraded to premium subscription successfully")

\* The actions of the hook besides the upgrade: the effect that loads the
\* subscription, and the three callbacks.
HookActions == {"load", "cancel", "reactivate", "refresh"}

\* What an action of the hook does once its awaits have settled: the service
\* call it made, and the subscription to set or the error to set and throw.
Settled(made, subscription, error) ==
    [made |-> made, subscription |-> subscription, error |-> error]

\* loadSubscription: the catch is silent and sets the subscription to null.
loadSubscription(table, userId, fetchError) ==
    LET sub == getSubscription(table, userId, fetchError)
    IN  Settled(Call("load", userId, sub, None, sub),
                IF sub.threw THEN Some(None) ELSE Some(sub.value), None)

\* refreshSubscription: getSubscription, then setSubscription.
refreshSubscription(table, userId, fetchError) ==
    LET updatedSubscription == getSubscription(table, userId, fetchError)
        made == Call("refresh", userId, updatedSubscription, None,
                     updatedSubscription)
    IN  IF updatedSubscription.threw
        THEN Settled(made, None, Some(updatedSubscription.code))
        ELSE Settled(made, Some(updatedSubscription.value), None)

\* The hook's cancelSubscription: the service's, then getSubscription.
hookCancelSubscription(table, userId, fetchError, invokeError, refetchError) ==
    LET made == cancelSubscription(table, userId, fetchError, invokeError)
        updatedSubscription == getSubscription(table, userId, refetchError)
    IN  IF made.result.threw
        THEN Settled(made, None, Some(made.result.code))
        ELSE IF updatedSubscription.threw
        THEN Settled(made, None, Some(updatedSubscription.code))
        ELSE Settled(made, Some(updatedSubscription.value), None)

\* The hook's reactivateSubscription: the service's, whose result it sets.
hookReactivateSubscription(table, userId, fetchError, invokeError, refetchError) ==
    LET made == reactivateSubscription(table, userId, fetchError, invokeError,
                                       refetchError)
    IN  IF made.result.threw
        THEN Settled(made, None, Some(made.result.code))
        ELSE Settled(made, Some(made.result.value), None)

\* Whether the awaits of an action after its first read may fail: load and
\* refresh have none.
AwaitErrors(op) ==
    IF op \in {"cancel", "reactivate"} THEN BOOLEAN ELSE {FALSE}

\* try { setIsLoading(true); setError(null); ... : an action of the hook is
\* called, whatever else is in flight, for the user the screen is showing.
HookStart ==
    /\ hook.mounted
    /\ \E op \in HookActions, uid \in Users :
         /\ inflight[op] = "none"
         /\ \A other \in HookActions : inflight[other] \in {"none", uid}
         /\ inflight' = [inflight EXCEPT ![op] = uid]
    /\ hook' = setState(hook, [isLoading |-> TRUE, error |-> None])
    /\ UNCHANGED <<store, call, upgrade, quota, content>>

\* ... } catch { setError; throw } finally { setIsLoading(false) }: the
\* awaits of an action in flight settle.
HookFinish ==
    /\ \E op \in HookActions, fetchError \in BOOLEAN :
       \E invokeError \in AwaitErrors(op), refetchError \in AwaitErrors(op) :
         /\ inflight[op] # "none"
         /\ \E done \in
               {CASE op = "load" ->
                       loadSubscription(user_subscriptions, inflight[op],
                                        fetchError)
                  [] op = "refresh" ->
                       refreshSubscription(user_subscriptions, inflight[op],
                                           fetchError)
                  [] op = "cancel" ->
                       hookCancelSubscription(user_subscriptions, inflight[op],
                           fetchError, invokeError, refetchError)
                  [] OTHER ->
                       hookReactivateSubscription(user_subscriptions,
                           inflight[op], fetchError, invokeError,
                           refetchError)} :
               /\ call' = done.made
               /\ hook' =
                    IF done.error # None
                    THEN setState(hook, [error |-> done.error,
                                         isLoading |-> FALSE])
                    ELSE setState(hook, [subscription |-> done.subscription[1],
                                         isLoading |-> FALSE])
         /\ inflight' = [inflight EXCEPT ![op] = "none"]
    /\ UNCHANGED <<store, upgrade, quota, content>>

\* The component that called the hook goes away (the user navigates away).
Unmount ==
    /\ hook.mounted
    /\ hook' = [hook EXCEPT !.mounted = FALSE]
    /\ UNCHANGED <<store, call, inflight, upgrade, quota, content>>

----------------------------------------------------------------------------
(* Quota ledger: exam_sessions and check_exam_eligibility *)

Day == 24 * 60 * 60
Week == 7 * Day

\* INSERT INTO exam_sessions (user_id): status and started_at take their
\* column defaults, 'in_progress' and NOW().
ExamSession(id, userId, t) ==
    [id |-> id, user_id |-> userId, status |-> "in_progress", started_at |-> t]

\* An answer of the function: (eligible, reason, next_available_at), and the
\* user and the NOW() it was computed for.
Eligibility(userId, t, eligible, reason, next) ==
    [user_id |-> userId, at |-> t, eligible |-> eligible, reason |-> reason,
     next_available_at |-> next]

NoEligibility == Eligibility("none", 0, FALSE, "none", None)

\* MAX(started_at) over a non-empty set of rows.
MaxStartedAt(rows) ==
    CHOOSE t \in {r.started_at : r \in rows} :
        \A r \in rows : r.started_at <= t

\* A count that takes every session of the window, finished or not; C12
\* must tell it from the function's.
check_counting_started(table, sessions, userId, t) ==
    LET user_tier == IF table[userId] = NoRow THEN None
                     ELSE Some(table[userId].tier)
        counted == {r \in sessions :
                      /\ r.user_id = userId
                      /\ r.started_at > t - Week}
    IN  IF user_tier = Some("premium")
        THEN Eligibility(userId, t, TRUE, "Premium access", None)
        ELSE IF Cardinality(counted) >= 1
        THEN Eligibility(userId, t, FALSE, "Free tier limit: 1 exam per week",
                         Some(MaxStartedAt(counted) + Week))
        ELSE Eligibility(userId, t, TRUE, "Eligible", None)

\* check_exam_eligibility(check_user_id) at NOW() = t.  A user without a
\* subscription row has user_tier NULL and takes the free-tier branch.
check_exam_eligibility(table, sessions, userId, t) ==
    LET user_tier == IF table[userId] = NoRow THEN None
                     ELSE Some(table[userId].tier)
        counted == {r \in sessions :
                      /\ r.user_id = userId
                      /\ r.status = "completed"
                      /\ r.started_at > t - Week}
        exams_this_week == Cardinality(counted)
    IN  IF user_tier = Some("premium")
        THEN Eligibility(userId, t, TRUE, "Premium access", None)
        ELSE IF exams_this_week >= 1
        THEN Eligibility(userId, t, FALSE, "Free tier limit: 1 exam per week",
                         Some(MaxStartedAt(counted) + Week))
        ELSE Eligibility(userId, t, TRUE, "Eligible", None)

CheckExamEligibility ==
    /\ \E userId \in Users :
         eligibility' = check_exam_eligibility(user_subscriptions, exam_sessions,
                                               userId, now)
    /\ UNCHANGED <<store, call, hook, inflight, upgrade, exam_sessions, content>>

\* A user starts an exam: a row is inserted.
InsertExamSession ==
    /\ Cardinality(exam_sessions) < MaxSessions
    /\ exam_sessions' =
          exam_sessions
          \cup {ExamSession(Cardinality(exam_sessions) + 1, "u1", now)}
    /\ UNCHANGED <<store, call, hook, inflight, upgrade, eligibility, content>>

\* in_progress -> completed, in_progress -> abandoned
ExamSessionTransition(r, status) ==
    /\ r \in exam_sessions
    /\ r.status = "in_progress"
    /\ exam_sessions' =
          (exam_sessions \ {r}) \cup {[r EXCEPT !.status = status]}
    /\ UNCHANGED <<store, call, hook, inflight, upgrade, eligibility, content>>

CompleteExamSession ==
    \E r \in exam_sessions : ExamSessionTransition(r, "completed")

AbandonExamSession ==
    \E r \in exam_sessions : ExamSessionTransition(r, "abandoned")

\* The subscription of the user is settled before the days are counted.
Subscribe ==
    /\ now = 0
    /\ exam_sessions = {}
    /\ Settle

\* A day goes by.
NextDay ==
    /\ now < MaxDays * Day
    /\ now' = now + Day
    /\ UNCHANGED <<user_subscriptions, user_analytics, webhook, delivered,
                   client>>

----------------------------------------------------------------------------
(* Submission: submitExam and the exam_results table *)

\* The callers that may have a submitExam call in flight at the same time.
Callers == {"c1", "c2"}

\* The questions of a session, with their sections and answer keys.
SessionQuestions ==
    {[id |-> "q1", section |-> "verbal", correctAnswer |-> "A"],
     [id |-> "q2", section |-> "quantitative", correctAnswer |-> "C"]}

QuestionAnswer(questionId, selectedAnswer) ==
    [questionId |-> questionId, selectedAnswer |-> selectedAnswer]

\* The answer sets a caller submits: one wrong in q2, all correct, and one
\* that answers a question the session does not have.
AnswerSets ==
    {{QuestionAnswer("q1", "A"), QuestionAnswer("q2", "B")},
     {QuestionAnswer("q1", "A"), QuestionAnswer("q2", "C")},
     {QuestionAnswer("q1", "A"), QuestionAnswer("q3", "A")}}

\* Scoring Engine: the percentage of the section's questions answered with
\* the key.
SectionScore(answers, section) ==
    LET qs == {q \in SessionQuestions : q.section = section}
        correct == {q \in qs : QuestionAnswer(q.id, q.correctAnswer) \in answers}
    IN  (Cardinality(correct) * 100) \div Cardinality(qs)

\* A row of exam_results; overall_average is the generated column, and
\* answers is what the scores were computed from.
ExamResult(sessionId, userId, answers, t) ==
    LET verbal == SectionScore(answers, "verbal")
        quantitative == SectionScore(answers, "quantitative")
    IN  [exam_session_id |-> sessionId, user_id |-> userId,
         verbal_score |-> verbal, quantitative_score |-> quantitative,
         overall_average |-> (verbal + quantitative) \div 2,
         answers |-> answers, created_at |-> t]

ResultsOf(results, sessionId) ==
    {r \in results : r.exam_session_id = sessionId}

\* An INSERT that writes over the row of the same session; C13 must tell it
\* from the table's.
UpsertExamResult(results, row) ==
    [table |-> (results \ ResultsOf(results, row.exam_session_id)) \cup {row},
     conflict |-> FALSE]

\* An INSERT into a table without the UNIQUE constraint; C15 must tell it
\* from the table's.
InsertExamResultAgain(results, row) ==
    [table |-> results \cup {row}, conflict |-> FALSE]

\* INSERT INTO exam_results: exam_session_id is UNIQUE, a second row for the
\* session is refused.
InsertExamResult(results, row) ==
    IF ResultsOf(results, row.exam_session_id) # {}
    THEN [table |-> results, conflict |-> TRUE]
    ELSE [table |-> results \cup {row}, conflict |-> FALSE]

\* A rejection of submit: none of them is worth a retry.
SubmitRejected(code) ==
    [threw |-> TRUE, value |-> None, code |-> code, retryable |-> FALSE]

Submission(pc, sessionId, answers, seen, outcome) ==
    [pc |-> pc, session_id |-> sessionId, answers |-> answers, seen |-> seen,
     outcome |-> outcome]

NoSubmission == Submission("idle", 0, {}, "none", Threw("none"))

SessionOf(sessions, sessionId) ==
    CHOOSE r \in sessions : r.id = sessionId

\* Resubmission on a session that has its result: the existing result for
\* the identical answers, an integrity error for any other.
resubmitExam(results, sessionId, answers) ==
    LET existing == ResultsOf(results, sessionId)
    IN  IF \E r \in existing : r.answers = answers
        THEN Returned(Some(CHOOSE r \in existing : r.answers = answers))
        ELSE SubmitRejected("DUPLICATE_SUBMISSION")

\* The variant of the guard that takes an abandoned session for one in
\* progress; C14 must tell it from the guard.
submitGuardStale(sub, sessions, results) ==
    LET session == SessionOf(sessions, sub.session_id)
    IN  IF session.status = "completed"
        THEN Submission("done", sub.session_id, sub.answers, session.status,
                        resubmitExam(results, sub.session_id, sub.answers))
        ELSE IF \E a \in sub.answers :
                   a.questionId \notin {q.id : q \in SessionQuestions}
        THEN Submission("done", sub.session_id, sub.answers, session.status,
                        SubmitRejected("INVALID_ANSWERS"))
        ELSE Submission("persist", sub.session_id, sub.answers, session.status,
                        sub.outcome)

\* submit, the guard: the session must be in_progress and the answers must
\* be answers to its questions.
submitGuard(sub, sessions, results) ==
    LET session == SessionOf(sessions, sub.session_id)
    IN  IF session.status = "abandoned"
        THEN Submission("done", sub.session_id, sub.answers, session.status,
                        SubmitRejected("SESSION_NOT_IN_PROGRESS"))
        ELSE IF session.status = "completed"
        THEN Submission("done", sub.session_id, sub.answers, session.status,
                        resubmitExam(results, sub.session_id, sub.answers))
        ELSE IF \E a \in sub.answers :
                   a.questionId \notin {q.id : q \in SessionQuestions}
        THEN Submission("done", sub.session_id, sub.answers, session.status,
                        SubmitRejected("INVALID_ANSWERS"))
        ELSE Submission("persist", sub.session_id, sub.answers, session.status,
                        sub.outcome)

\* A caller calls submitExam(sessionId, answers).
SubmitStart(c) ==
    /\ submits[c].pc \in {"idle", "done"}
    /\ \E session \in exam_sessions, answers \in AnswerSets :
         submits' = [submits EXCEPT ![c] =
                        Submission("guard", session.id, answers, "none",
                                   Threw("none"))]
    /\ UNCHANGED <<store, call, hook, inflight, upgrade, quota, exam_results, generating>>

SubmitGuard(c) ==
    /\ submits[c].pc = "guard"
    /\ submits' = [submits EXCEPT ![c] =
                      submitGuard(submits[c], exam_sessions, exam_results)]
    /\ UNCHANGED <<store, call, hook, inflight, upgrade, quota, exam_results, generating>>

\* submit, on success: the session goes to completed and its one result is
\* persisted; a result that is already there is answered as a resubmission.
SubmitPersist(c) ==
    LET sub == submits[c]
        session == SessionOf(exam_sessions, sub.session_id)
        row == ExamResult(session.id, session.user_id, sub.answers, now)
    IN  /\ sub.pc = "persist"
        /\ \E ins \in {InsertExamResult(exam_results, row)} :
             IF session.status = "abandoned"
             THEN /\ submits' = [submits EXCEPT ![c] =
                        Submission("done", sub.session_id, sub.answers, sub.seen,
                                   SubmitRejected("SESSION_NOT_IN_PROGRESS"))]
                  /\ UNCHANGED <<exam_sessions, exam_results>>
             ELSE IF ins.conflict
             THEN /\ submits' = [submits EXCEPT ![c] =
                        Submission("done", sub.session_id, sub.answers, sub.seen,
                                   resubmitExam(exam_results, sub.session_id,
                                                sub.answers))]
                  /\ UNCHANGED <<exam_sessions, exam_results>>
             ELSE /\ exam_results' = ins.table
                  /\ exam_sessions' =
                        (exam_sessions \ {session})
                        \cup {[session EXCEPT !.status = "completed"]}
                  /\ submits' = [submits EXCEPT ![c] =
                        Submission("done", sub.session_id, sub.answers, sub.seen,
                                   Returned(Some(row)))]
        /\ UNCHANGED <<store, call, hook, inflight, upgrade, eligibility, generating>>

----------------------------------------------------------------------------
(* Generation failures: GeminiServiceError and parseGeminiError *)

GeminiErrorType ==
    {"QUOTA_EXCEEDED", "TIMEOUT", "INVALID_PROMPT", "CONTENT_FILTER",
     "API_ERROR", "NETWORK_ERROR", "UNKNOWN"}

\* The substrings parseGeminiError looks for in the error message.
MessageMarkers ==
    {"quota", "rate limit", "timeout", "deadline", "invalid prompt",
     "invalid request", "content filter", "safety", "blocked", "network",
     "ECONNREFUSED", "ENOTFOUND"}

\* An error as the generation call throws it: the markers its message
\* includes, error.status and error.code.
RawError(message, status, code) ==
    [message |-> message, status |-> status, code |-> code]

GeminiServiceError(geminiType, code, retryable) ==
    [threw |-> TRUE, value |-> None, geminiType |-> geminiType, code |-> code,
     retryable |-> retryable]

createGeminiError(type, retryable) ==
    GeminiServiceError(type,
        CASE type = "QUOTA_EXCEEDED" -> "AI_QUOTA_EXCEEDED"
          [] type = "TIMEOUT" -> "AI_TIMEOUT"
          [] type = "INVALID_PROMPT" -> "VALIDATION_ERROR"
          [] type = "CONTENT_FILTER" -> "VALIDATION_ERROR"
          [] type = "NETWORK_ERROR" -> "NETWORK_ERROR"
          [] OTHER -> "AI_GENERATION_FAILED",
        retryable)

Includes(error, markers) == error.message \cap markers # {}

\* A classification that offers a retry for whatever it does not take for a
\* quota, timeout, network or server failure; C18 must tell it from the
\* code's.
parseGeminiErrorRetryAll(error) ==
    IF Includes(error, {"quota", "rate limit"}) \/ error.status = Some(429)
    THEN createGeminiError("QUOTA_EXCEEDED", TRUE)
    ELSE IF Includes(error, {"timeout", "deadline"})
            \/ error.code = Some("ETIMEDOUT")
    THEN createGeminiError("TIMEOUT", TRUE)
    ELSE IF Includes(error, {"network", "ECONNREFUSED", "ENOTFOUND"})
    THEN createGeminiError("NETWORK_ERROR", TRUE)
    ELSE IF error.status # None /\ error.status[1] >= 500
    THEN createGeminiError("API_ERROR", TRUE)
    ELSE createGeminiError("UNKNOWN", TRUE)

parseGeminiError(error) ==
    IF Includes(error, {"quota", "rate limit"}) \/ error.status = Some(429)
    THEN createGeminiError("QUOTA_EXCEEDED", TRUE)
    ELSE IF Includes(error, {"timeout", "deadline"})
            \/ error.code = Some("ETIMEDOUT")
    THEN createGeminiError("TIMEOUT", TRUE)
    ELSE IF Includes(error, {"invalid prompt", "invalid request"})
            \/ error.status = Some(400)
    THEN createGeminiError("INVALID_PROMPT", FALSE)
    ELSE IF Includes(error, {"content filter", "safety", "blocked"})
    THEN createGeminiError("CONTENT_FILTER", FALSE)
    ELSE IF Includes(error, {"network", "ECONNREFUSED", "ENOTFOUND"})
    THEN createGeminiError("NETWORK_ERROR", TRUE)
    ELSE IF error.status # None /\ error.status[1] >= 500
    THEN createGeminiError("API_ERROR", TRUE)
    ELSE createGeminiError("UNKNOWN", TRUE)

createExamGenerationError(originalError) ==
    LET geminiError == parseGeminiError(originalError)
    IN  GeminiServiceError(geminiError.geminiType, "EXAM_GENERATION_FAILED",
                           geminiError.retryable)

createPracticeGenerationError(originalError) ==
    LET geminiError == parseGeminiError(originalError)
    IN  GeminiServiceError(geminiError.geminiType, "PRACTICE_GENERATION_FAILED",
                           geminiError.retryable)

\* What goes wrong in a generation call, by what it is, and the errors it
\* shows up as.
FailureKinds ==
    {"timeout", "transient", "rate_limit", "invalid_criteria",
     "content_filtered"}

Failure(kind, error) == [kind |-> kind, error |-> error]

GenerationFailures ==
    {Failure("rate_limit", RawError({}, Some(429), None)),
     Failure("rate_limit", RawError({"quota"}, Some(429), None)),
     Failure("rate_limit", RawError({"rate limit"}, None, None)),
     Failure("timeout", RawError({"timeout"}, None, None)),
     Failure("timeout", RawError({}, None, Some("ETIMEDOUT"))),
     Failure("timeout", RawError({"deadline"}, Some(504), None)),
     Failure("transient", RawError({}, Some(500), None)),
     Failure("transient", RawError({}, Some(503), None)),
     Failure("transient", RawError({"network"}, None, None)),
     Failure("transient", RawError({"ECONNREFUSED"}, None, Some("ECONNREFUSED"))),
     Failure("invalid_criteria", RawError({}, Some(400), None)),
     Failure("invalid_criteria", RawError({"invalid request"}, Some(400), None)),
     Failure("invalid_criteria", RawError({"invalid prompt"}, None, None)),
     Failure("content_filtered", RawError({"safety"}, None, None)),
     Failure("content_filtered", RawError({"blocked", "safety"}, Some(400), None)),
     Failure("content_filtered", RawError({"content filter"}, None, None))}

----------------------------------------------------------------------------
(* Generation: tier limits, startExam and startPractice *)

\* examsPerWeek: Infinity
Infinity == 1000000

TIER_LIMITS ==
    [free |-> [tier |-> "free", examsPerWeek |-> 1,
               practiceQuestionLimit |-> 5,
               hasAdvancedAnalytics |-> FALSE,
               hasSolutionExplanations |-> FALSE,
               hasExportReports |-> FALSE],
     premium |-> [tier |-> "premium", examsPerWeek |-> Infinity,
                  practiceQuestionLimit |-> 100,
                  hasAdvancedAnalytics |-> TRUE,
                  hasSolutionExplanations |-> TRUE,
                  hasExportReports |-> TRUE]]

\* A lookup that hands every tier the premium limits; C17 must tell it from
\* the code's.
getPremiumLimits(tier) == TIER_LIMITS["premium"]

getTierLimits(tier) == TIER_LIMITS[tier]

\* useSubscription's derived state: isPremium of the subscription it holds
\* (null is None) ...
isPremium(subscription) ==
    /\ subscription # None
    /\ subscription[1].tier = "premium"
    /\ subscription[1].status \in {"active", "trialing"}

\* ... and limits: getTierLimits(subscription?.tier || 'free').
limits(subscription) ==
    getTierLimits(IF subscription # None THEN subscription[1].tier ELSE "free")

\* total_questions INTEGER NOT NULL DEFAULT 40
total_questions == 40

\* The question counts a practice request asks for.
QuestionCounts == {5, 6, 20, 100, 101}

\* A row of practice_sessions with the column defaults of the schema.
PracticeSession(id, userId, count, t) ==
    [id |-> id, user_id |-> userId, question_count |-> count,
     status |-> "in_progress", started_at |-> t]

\* EXAM_LIMIT_EXCEEDED, with next_available_at
ExamLimitExceeded(next) ==
    [threw |-> TRUE, value |-> None, code |-> "EXAM_LIMIT_EXCEEDED",
     retryable |-> FALSE, next_available_at |-> next]

\* QUESTION_LIMIT_EXCEEDED, with allowed_count and requested_count
QuestionLimitExceeded(allowed, requested) ==
    [threw |-> TRUE, value |-> None, code |-> "QUESTION_LIMIT_EXCEEDED",
     retryable |-> FALSE, allowed_count |-> allowed,
     requested_count |-> requested]

\* A generate call: the request, the tier and the number of sessions it
\* found, what the generation call ran into, and how the call ended.
Generation(pc, kind, userId, count, tier, before, failure, outcome) ==
    [pc |-> pc, kind |-> kind, user_id |-> userId, count |-> count,
     tier |-> tier, before |-> before, failure |-> failure,
     outcome |-> outcome]

NoGeneration ==
    Generation("idle", "none", "none", 0, "free", 0, "none", Threw("none"))

\* The tier of the user's Subscription Record; free without one.
TierOf(table, userId) ==
    IF table[userId] = NoRow THEN "free" ELSE table[userId].tier

\* generate, steps 1 and 2: the quota of an exam, the question count of a
\* practice session.  None when the request may go on.
generateGuard(table, sessions, kind, userId, count, t) ==
    IF kind = "exam"
    THEN LET answer == check_exam_eligibility(table, sessions, userId, t)
         IN  IF answer.eligible THEN None
             ELSE Some(ExamLimitExceeded(answer.next_available_at))
    ELSE LET allowed == getTierLimits(TierOf(table, userId)).practiceQuestionLimit
         IN  IF count > allowed
             THEN Some(QuestionLimitExceeded(allowed, count))
             ELSE None

\* What the generation call answers: the questions, or one of the failures.
GenerationResponses ==
    {[ok |-> TRUE, failure |-> Failure("none", RawError({}, None, None))]}
    \cup {[ok |-> FALSE, failure |-> f] : f \in GenerationFailures}

Generated(g, response, exams, practices, outcome) ==
    [generation |->
        Generation("done", g.kind, g.user_id, g.count, g.tier, g.before,
                   response.failure.kind, outcome),
     exam_sessions |-> exams, practice_sessions |-> practices]

\* A step 5 that keeps the session row of the failed request; C16 must tell
\* it from the orchestrator's.
generateFinishPartial(g, response, exams, practices, t) ==
    LET exam == ExamSession(Cardinality(exams) + 1, g.user_id, t)
        practice == PracticeSession(Cardinality(practices) + 1, g.user_id,
                                    g.count, t)
        outcome ==
            IF response.ok
            THEN Returned(Some(IF g.kind = "exam" THEN exam ELSE practice))
            ELSE IF g.kind = "exam"
            THEN createExamGenerationError(response.failure.error)
            ELSE createPracticeGenerationError(response.failure.error)
    IN  IF g.kind = "exam"
        THEN Generated(g, response, exams \cup {exam}, practices, outcome)
        ELSE Generated(g, response, exams, practices \cup {practice}, outcome)

\* generate, steps 4 and 5: on success the session is persisted in_progress;
\* on failure the failure is classified and nothing is persisted.
generateFinish(g, response, exams, practices, t) ==
    LET exam == ExamSession(Cardinality(exams) + 1, g.user_id, t)
        practice == PracticeSession(Cardinality(practices) + 1, g.user_id,
                                    g.count, t)
    IN  IF ~response.ok
        THEN Generated(g, response, exams, practices,
                 IF g.kind = "exam"
                 THEN createExamGenerationError(response.failure.error)
                 ELSE createPracticeGenerationError(response.failure.error))
        ELSE IF g.kind = "exam"
        THEN Generated(g, response, exams \cup {exam}, practices,
                       Returned(Some(exam)))
        ELSE Generated(g, response, exams, practices \cup {practice},
                       Returned(Some(practice)))

\* generate(userId, kind, criteria) is called: the guard runs, and the
\* generation call is sent if it passes.
GenerateStart ==
    /\ generation.pc \in {"idle", "done"}
    /\ Cardinality(exam_sessions) + Cardinality(practice_sessions) < MaxSessions
    /\ \E userId \in Users, kind \in {"exam", "practice"} :
       \E count \in IF kind = "exam" THEN {total_questions} ELSE QuestionCounts :
         \E rejected \in {generateGuard(user_subscriptions, exam_sessions, kind,
                                        userId, count, now)} :
            generation' =
                Generation(IF rejected = None THEN "generating" ELSE "done",
                           kind, userId, count,
                           TierOf(user_subscriptions, userId),
                           Cardinality(exam_sessions)
                               + Cardinality(practice_sessions),
                           "none",
                           IF rejected = None THEN Threw("none")
                           ELSE rejected[1])
    /\ UNCHANGED <<store, call, hook, inflight, upgrade, quota, exam_results, submits,
                   practice_sessions>>

\* The generation call answers, or fails.
GenerateFinish ==
    /\ generation.pc = "generating"
    /\ \E response \in GenerationResponses :
         \E done \in {generateFinish(generation, response, exam_sessions,
                                     practice_sessions, now)} :
            /\ generation' = done.generation
            /\ exam_sessions' = done.exam_sessions
            /\ practice_sessions' = done.practice_sessions
    /\ UNCHANGED <<store, call, hook, inflight, upgrade, eligibility, exam_results,
                   submits>>

----------------------------------------------------------------------------
(* Properties of the webhook consumer *)

Rows == {u \in Users : user_subscriptions[u] # NoRow}

\* C1: an event delivered twice in a row leaves the Subscription Record as
\* the first delivery left it.
C1_RedeliveryIsNoOp ==
    [][(delivered # NoEvent /\ delivered' = delivered)
          => user_subscriptions' = user_subscriptions]_vars

\* C2: an event delivered right after a newer event (by the events' own
\* timestamps) of the same subscription is discarded: tier and status of
\* every record stay as the newer event left them.
C2_OlderEventDiscarded ==
    [][(/\ delivered # NoEvent
        /\ delivered' # NoEvent
        /\ delivered'.object.id = delivered.object.id
        /\ delivered'.created < delivered.created)
          => \A u \in Rows :
                /\ user_subscriptions'[u].tier = user_subscriptions[u].tier
                /\ user_subscriptions'[u].status = user_subscriptions[u].status]_vars

\* C3: a request whose stripe-signature header is missing or does not verify
\* is answered 4xx, runs no handler and writes to neither table.
C3_BadSignatureRejected ==
    [][webhook'.signature \in {"missing", "invalid"}
          => /\ webhook'.status \in 400..499
             /\ ~webhook'.handled
             /\ UNCHANGED <<user_subscriptions, user_analytics>>]_vars

\* C3 witness: a premium record is in place, and a request with a bad
\* signature that would have downgraded it has been turned away.
C3_Witness ==
    /\ webhook.method = "POST"
    /\ webhook.signature = "invalid"
    /\ webhook.status = 400
    /\ \E u \in Rows : user_subscriptions[u].tier = "premium"

\* C4: a POST whose signature verifies is answered 200, whatever the event's
\* type and whether or not its handler threw.
C4_VerifiedAlwaysAcknowledged ==
    (webhook.method = "POST" /\ webhook.signature = "valid")
        => webhook.status = 200

\* C4 witness: the handler of a verified event threw, and the answer was 200.
C4_Witness ==
    /\ webhook.signature = "valid"
    /\ webhook.handled
    /\ webhook.threw
    /\ webhook.status = 200

\* C4, the other case: an event of no recognized type was answered 200.
C4_WitnessUnhandledType ==
    /\ webhook.handled
    /\ webhook.type \notin HandledTypes
    /\ webhook.status = 200

\* C5: an event of one of the four kinds whose reference matches no
\* Subscription Record ends in an error (thrown and logged), never in a
\* successful run.
C5_UnknownReferenceIsError ==
    (webhook.handled /\ webhook.type \in HandledTypes /\ webhook.matched = 0)
        => (webhook.threw /\ "error" \in webhook.log)

\* C6: a record of tier free has no external subscription reference.
C6_FreeHasNoSubscriptionId ==
    \A u \in Rows :
        user_subscriptions[u].tier = "free"
            => user_subscriptions[u].stripe_subscription_id = None

----------------------------------------------------------------------------
(* Properties of the subscription service *)

\* The store shows a subscription reference that can carry premium: a row
\* of tier premium with a stripe_subscription_id.
PremiumEligibleReference(seen) ==
    /\ ~seen.threw
    /\ seen.value # None
    /\ seen.value[1].tier = "premium"
    /\ seen.value[1].stripe_subscription_id # None

\* C9: a cancel or reactivate call that finds no premium-eligible
\* subscription reference in the store is rejected locally (no subscription)
\* and sends no call to the processor.
C9_RejectedLocallyWithoutReference ==
    (/\ call.op \in {"cancel", "reactivate"}
     /\ ~call.seen.threw
     /\ ~PremiumEligibleReference(call.seen))
        => /\ call.remote = None
           /\ call.result.threw
           /\ call.result.code \in {"NO_SUBSCRIPTION", "INVALID_SUBSCRIPTION"}

\* C9, the part the code keeps: with no row, or a row without a
\* stripe_subscription_id, the call is rejected locally and nothing is sent.
C9_RejectedWithoutSubscriptionId ==
    (/\ call.op \in {"cancel", "reactivate"}
     /\ ~call.seen.threw
     /\ (call.seen.value = None
         \/ call.seen.value[1].stripe_subscription_id = None))
        => /\ call.remote = None
           /\ call.result.threw
           /\ call.result.code \in {"NO_SUBSCRIPTION", "INVALID_SUBSCRIPTION"}

----------------------------------------------------------------------------
(* Properties of the post-payment poll *)

PollEnded == upgrade.poll.done

C8_NoWorkAfterUnmount ==
    [][~hook.mounted
          => (upgrade'.poll.reads = upgrade.poll.reads /\ hook' = hook)]_vars

----------------------------------------------------------------------------
(* Properties of the upgrade flow *)

\* The upgrade has come back to its caller.
UpgradeEnded == upgrade.pc = "idle" /\ upgrade.user_id # "none"

\* C21: a cancellation of the payment sheet by the user (the only origin of
\* the code PAYMENT_CANCELED) never ends the upgrade in an exception raised
\* to the caller, and is not left as the hook's error.
C21_CancellationIsNotAnError ==
    /\ ~(upgrade.result.threw /\ upgrade.result.code = "PAYMENT_CANCELED")
    /\ hook.error # Some("PAYMENT_CANCELED")

\* C22: the failure the upgrade reports never carries a processor code from
\* outside the known set: such a code is replaced by the generic category
\* and is not surfaced raw, neither in the error thrown nor in the hook's.
C22_UnknownCodeNeverSurfaced ==
    /\ upgrade.result.threw
          => upgrade.result.code \notin StripeErrorCodes \ KnownPaymentCodes
    /\ \A code \in StripeErrorCodes \ KnownPaymentCodes :
          hook.error # Some(code)

\* The delay before each read of the poll after the first: the waits of the
\* loop, and no wait before a read made without one.
Gaps(p) ==
    IF p.reads > Len(p.waited) + 1 THEN Append(p.waited, 0) ELSE p.waited

\* C23: the delays between successive reads of the post-payment poll
\* increase from each read to the next.
C23_DelaysIncrease ==
    \A i \in 1..(Len(Gaps(upgrade.poll)) - 1) :
        Gaps(upgrade.poll)[i] < Gaps(upgrade.poll)[i + 1]

\* C27: when the post-payment poll has ended with a record whose tier is
\* still not premium, the caller of the upgrade tells the user that the
\* activation may still be in progress and does not report the upgrade as
\* completed.
C27_PendingActivationIsTold ==
    (/\ UpgradeEnded
     /\ PollEnded
     /\ ~upgrade.result.threw
     /\ upgrade.result.value[1].tier # "premium")
        => handleUpgrade(upgrade.result) =
              Some("Activation may still be in progress")

\* C24: every external call is made with a timeout, so that a call that gets
\* no answer ends in a failure: the upgrade is never left waiting, without
\* bound, for the checkout creation to answer.
C24_ExternalCallsTimeOut ==
    upgrade.pc # "waiting"

----------------------------------------------------------------------------
(* Properties of useSubscription *)

\* The step is the end of this action of the hook.
Finishes(op) == inflight[op] # "none" /\ inflight'[op] = "none"

\* C25: a subscription lookup (the hook's load or refresh, both
\* getSubscription) that succeeds for a user who has no Subscription Record
\* creates one with tier free and status active and returns it.
C25_FirstLookupCreatesRecord ==
    [][\A op \in {"load", "refresh"} :
          (/\ Finishes(op)
           /\ ~call'.seen.threw
           /\ user_subscriptions[inflight[op]] = NoRow)
             => /\ user_subscriptions'[inflight[op]] # NoRow
                /\ user_subscriptions'[inflight[op]].tier = "free"
                /\ user_subscriptions'[inflight[op]].status = "active"
                /\ call'.result =
                      Returned(Some(user_subscriptions'[inflight[op]]))]_vars

\* Some action of the hook, the upgrade included, has been called and has
\* not settled yet.
InFlight ==
    \/ \E op \in HookActions : inflight[op] # "none"
    \/ upgrade.pc # "idle"

\* C29: isLoading is true whenever at least one action of the hook is in
\* flight, overlapping actions included, and false once all have completed.
C29_LoadingWhileInFlight ==
    hook.mounted => (hook.isLoading <=> InFlight)

\* C30: whenever the hook reports isPremium = false, the limits it reports
\* are those of the free tier (1 exam per week, 5 practice questions).
C30_NotPremiumHasFreeLimits ==
    ~isPremium(hook.subscription)
        => /\ limits(hook.subscription) = TIER_LIMITS["free"]
           /\ limits(hook.subscription).examsPerWeek = 1
           /\ limits(hook.subscription).practiceQuestionLimit = 5

----------------------------------------------------------------------------
(* Properties of the quota ledger *)

\* Sunday 00:00 UTC of the week that holds t.  Day 0 of the clock is
\* Thursday, 1 January 1970.
WeekStart(t) ==
    LET d == t \div Day
    IN  (d - ((d + 4) % 7)) * Day

\* The completed exam sessions of the user whose started_at lies in the UTC
\* week (Sunday 00:00 through Saturday 23:59:59) that holds t.
CompletedInWeek(userId, t) ==
    {r \in exam_sessions :
        /\ r.user_id = userId
        /\ r.status = "completed"
        /\ WeekStart(t) <= r.started_at
        /\ r.started_at < WeekStart(t) + Week}

\* The answer in `eligibility` was given in this state: for this clock and
\* these tables.
AnsweredNow ==
    /\ eligibility.user_id \in Users
    /\ eligibility.at = now
    /\ eligibility =
          check_exam_eligibility(user_subscriptions, exam_sessions,
                                 eligibility.user_id, now)

FreeTier(userId) ==
    user_subscriptions[userId] = NoRow
    \/ user_subscriptions[userId].tier = "free"

\* C10: for a free-tier user the answer is eligible exactly when no
\* completed exam session has its started_at in the current UTC week
\* (Sunday 00:00 UTC to Saturday 23:59:59 UTC).
C10_EligibleIffNoneInUTCWeek ==
    (AnsweredNow /\ FreeTier(eligibility.user_id))
        => (eligibility.eligible
              <=> CompletedInWeek(eligibility.user_id, now) = {})

\* C11: a free-tier user with exactly one completed exam session in the
\* current UTC week is answered ineligible, with next_available_at the next
\* Sunday 00:00 UTC.
C11_IneligibleUntilNextSunday ==
    (/\ AnsweredNow
     /\ FreeTier(eligibility.user_id)
     /\ Cardinality(CompletedInWeek(eligibility.user_id, now)) = 1)
        => /\ ~eligibility.eligible
           /\ eligibility.next_available_at = Some(WeekStart(now) + Week)

\* The sessions that are finished: only these are meant to count.
CompletedSessions == {r \in exam_sessions : r.status = "completed"}

\* C12: sessions that are in_progress or abandoned leave the answer for a
\* free-tier user as it is without them, and a user with no completed
\* session is eligible however many sessions were started or abandoned.
C12_UnfinishedSessionsDoNotCount ==
    (AnsweredNow /\ FreeTier(eligibility.user_id))
        => /\ eligibility =
                check_exam_eligibility(user_subscriptions, CompletedSessions,
                                       eligibility.user_id, now)
           /\ (\A r \in CompletedSessions : r.user_id # eligibility.user_id)
                 => eligibility.eligible

\* C12 witness: a free-tier user with a session in progress and an abandoned
\* one in the current week, and none completed, was answered eligible.
C12_Witness ==
    /\ AnsweredNow
    /\ FreeTier(eligibility.user_id)
    /\ eligibility.eligible
    /\ \E r1, r2 \in exam_sessions :
          /\ r1.user_id = eligibility.user_id
          /\ r2.user_id = eligibility.user_id
          /\ r1.status = "in_progress"
          /\ r2.status = "abandoned"
          /\ r1.started_at >= WeekStart(now)
          /\ r2.started_at >= WeekStart(now)

----------------------------------------------------------------------------
(* Properties of submission *)

Done(c) == submits[c].pc = "done"

SameSubmission(c1, c2) ==
    /\ Done(c1)
    /\ Done(c2)
    /\ submits[c1].session_id = submits[c2].session_id
    /\ submits[c1].answers = submits[c2].answers

Rejected(c) ==
    /\ submits[c].outcome.threw
    /\ submits[c].outcome.code # "none"
    /\ ~submits[c].outcome.retryable

----------------------------------------------------------------------------
(* Properties of generation *)

SessionCount == Cardinality(exam_sessions) + Cardinality(practice_sessions)

GenerationFailed ==
    /\ generation.pc = "done"
    /\ generation.failure \in FailureKinds

ClaimedCap(tier) == IF tier = "premium" THEN 100 ELSE 5

\* C17: a practice request for more questions than the cap of the user's
\* tier (5 for free, 100 for premium) is rejected with the allowed and the
\* requested count, and no session is persisted.
C17_OverCapRejected ==
    (/\ generation.pc # "idle"
     /\ generation.kind = "practice"
     /\ generation.count > ClaimedCap(generation.tier))
        => /\ generation.pc = "done"
           /\ generation.outcome =
                 QuestionLimitExceeded(ClaimedCap(generation.tier),
                                       generation.count)
           /\ SessionCount = generation.before

\* C17 witness: a free user asked for 20 practice questions and was turned
\* away with allowed 5, requested 20.
C17_Witness ==
    /\ generation.pc = "done"
    /\ generation.kind = "practice"
    /\ generation.tier = "free"
    /\ generation.count = 20
    /\ generation.outcome = QuestionLimitExceeded(5, 20)
    /\ practice_sessions = {}

----------------------------------------------------------------------------
(* Properties of the Subscription Record *)

\* C28: after any sequence of lifecycle events, a record with tier premium
\* has status active, trialing or past_due, never canceled or incomplete.
C28_PremiumHasLiveStatus ==
    \A u \in Rows :
        user_subscriptions[u].tier = "premium"
            => user_subscriptions[u].status \in {"active", "trialing", "past_due"}

----------------------------------------------------------------------------
(* Properties of the created handler *)

\* The exchange is a created event whose handler found its record and got
\* an error from the upsert into user_analytics.
AnalyticsFailed(exchange) ==
    /\ exchange.handled
    /\ exchange.type = "customer.subscription.created"
    /\ exchange.fault = "upsert"
    /\ exchange.matched = 1

\* C26: when ensuring the analytics row fails while a created event is
\* applied, the event's update of the subscription is applied all the same
\* (the record of the customer is premium, with the subscription's id and
\* period, written now) and the application ends without error.
C26_AnalyticsFailureIsNotFatal ==
    [][(now' = now /\ AnalyticsFailed(webhook'))
          => /\ ~webhook'.threw
             /\ webhook'.status = 200
             /\ user_analytics' = user_analytics
             /\ \E u \in Rows :
                   /\ user_subscriptions'[u].tier = "premium"
                   /\ user_subscriptions'[u].stripe_subscription_id # None
                   /\ user_subscriptions'[u].current_period_end = Some(FromUnix(2))
                   /\ user_subscriptions'[u].updated_at = NowISO(now)]_vars

\* C26's case: the analytics row of u1 could not be ensured, and u1 is
\* premium with no analytics row.
C26_Witness ==
    /\ AnalyticsFailed(webhook)
    /\ ~webhook.threw
    /\ user_subscriptions["u1"].tier = "premium"
    /\ "u1" \notin user_analytics

----------------------------------------------------------------------------
(* Properties of the updated and payment_failed handlers *)

\* The step is the delivery of an event of this type.
Delivers(type) ==
    /\ now' = now
    /\ delivered' # NoEvent
    /\ delivered'.type = type

\* The records the delivered event refers to, as they were before it.
RecordsOf(event) ==
    RowsWhere(user_subscriptions, "stripe_subscription_id", event.object.id)

\* C19: an updated event with status canceled and cancel_at_period_end
\* false moves the record of its subscription to tier free in that very
\* delivery; an updated event with canceled_at set and cancel_at_period_end
\* true leaves the tier of every record as it was.
C19_UpdatedDowngradesOnlyImmediateCancel ==
    [][Delivers("customer.subscription.updated") =>
          /\ (/\ delivered'.object.status = "canceled"
              /\ ~delivered'.object.cancel_at_period_end)
                => \A u \in RecordsOf(delivered') :
                      user_subscriptions'[u].tier = "free"
          /\ (/\ delivered'.object.canceled_at # None
              /\ delivered'.object.cancel_at_period_end)
                => \A u \in Rows :
                      user_subscriptions'[u].tier = user_subscriptions[u].tier]_vars

\* C19's case: the last delivery was a cancellation at period end of a
\* subscription whose record is still premium, with the cancellation time
\* written to it.
C19_Witness ==
    /\ delivered # NoEvent
    /\ delivered.type = "customer.subscription.updated"
    /\ delivered.object.status = "canceled"
    /\ delivered.object.canceled_at = Some(1)
    /\ delivered.object.cancel_at_period_end
    /\ \E u \in Rows :
          /\ user_subscriptions[u].stripe_subscription_id = delivered.object.id
          /\ user_subscriptions[u].tier = "premium"
          /\ user_subscriptions[u].status = "canceled"
          /\ user_subscriptions[u].canceled_at = Some(FromUnix(1))

\* C20: a payment_failed event sets the status of the record of its
\* subscription to past_due and leaves the tier of every record as it was.
C20_PaymentFailedSetsPastDue ==
    [][Delivers("invoice.payment_failed") =>
          /\ \A u \in RecordsOf(delivered') :
                user_subscriptions'[u].status = "past_due"
          /\ \A u \in Rows :
                user_subscriptions'[u].tier = user_subscriptions[u].tier]_vars

\* C20's case: a payment failure was delivered for a premium record, which
\* is past_due and still premium.
C20_Witness ==
    /\ delivered # NoEvent
    /\ delivered.type = "invoice.payment_failed"
    /\ \E u \in Rows :
          /\ user_subscriptions[u].stripe_subscription_id = delivered.object.id
          /\ user_subscriptions[u].tier = "premium"
          /\ user_subscriptions[u].status = "past_due"

----------------------------------------------------------------------------

Init ==
    /\ user_subscriptions =
          [u \in Users |->
              IF u = "u1" THEN DefaultRow(u, Some("cus_1")) ELSE NoRow]
    /\ user_analytics = {}
    /\ now = 0
    /\ webhook = NoExchange
    /\ delivered = NoEvent
    /\ call = NoCall
    /\ hook = [mounted |-> TRUE, subscription |-> None, isLoading |-> FALSE,
               error |-> None]
    /\ inflight = [op \in HookActions |-> "none"]
    /\ upgrade = Upgrade("idle", "none", NoPoll, Threw("none"))
    /\ exam_sessions = {}
    /\ eligibility = NoEligibility
    /\ exam_results = {}
    /\ submits = [p \in Callers |-> NoSubmission]
    /\ practice_sessions = {}
    /\ generation = NoGeneration

Next ==
    \/ Webhook
    \/ Tick

Spec == Init /\ [][Next]_vars

NextRedelivery ==
    \/ Deliver
    \/ Tick

SpecRedelivery == Init /\ [][NextRedelivery]_vars

NextService ==
    \/ Settle
    \/ CancelSubscription
    \/ ReactivateSubscription
    \/ Tick

SpecService == Init /\ [][NextService]_vars

NextCheckout ==
    \/ Settle
    \/ UpgradeStart
    \/ UpgradeCheckout
    \/ UpgradePresent
    \/ UpgradePoll
    \/ Unmount
    \/ Tick

SpecCheckout == Init /\ [][NextCheckout]_vars

NextHook ==
    \/ Settle
    \/ HookStart
    \/ HookFinish

SpecHook == Init /\ [][NextHook]_vars

NextQuota ==
    \/ InsertExamSession
    \/ CompleteExamSession
    \/ AbandonExamSession
    \/ CheckExamEligibility
    \/ NextDay
    \/ Subscribe

SpecQuota == Init /\ [][NextQuota]_vars

NextSubmit ==
    \/ InsertExamSession
    \/ AbandonExamSession
    \/ \E c \in Callers : SubmitStart(c)
    \/ \E c \in Callers : SubmitGuard(c)
    \/ \E c \in Callers : SubmitPersist(c)
    \/ Tick

SpecSubmit == Init /\ [][NextSubmit]_vars

NextGenerate ==
    \/ Settle
    \/ GenerateStart
    \/ GenerateFinish
    \/ CompleteExamSession
    \/ Tick

SpecGenerate == Init /\ [][NextGenerate]_vars

====
